---- MODULE Spec2Model ----
(***************************************************************************)
(* research-agent: the provider client (AIClient), the folder scan, the    *)
(* prompt/worker pipeline of the GUI and the command loop of the CLI.      *)
(*                                                                         *)
(* The repository ships two entry points (research_agent_gui.py and        *)
(* research_agent_cli.py).  `program` says which one a behaviour runs:     *)
(* "gui", "cli", or "api" for a caller that drives an AIClient object      *)
(* directly through its public methods.                                    *)
(*                                                                         *)
(* Python strings are sequences of tokens; a token stands for a fixed run  *)
(* of characters, so prefix tests and concatenation are real operations.   *)
(***************************************************************************)
EXTENDS FiniteSets, Integers, Sequences, TLC

VARIABLES
    program,        \* "api" | "gui" | "cli"
    pc,             \* where the main thread is: "api", "mainloop" (gui),
                    \* "prompt" (cli), "scanning", "exited", "crashed"
    ai_client,      \* the AIClient object (gui: self.ai_client, cli: client)
    last,           \* the last public AIClient operation and how it ended
    provider,       \* gui: self.provider, cli: provider
    api_key,        \* gui: self.api_key, cli: api_key
    papers_folder,  \* gui: self.papers_folder, cli: papers_folder
    loaded_papers,  \* the dict path -> meta, in insertion order
    scan,           \* the folder scan in progress on the main thread
    btn,            \* gui: state of finder_btn / analyzer_btn / verifier_btn
    results,        \* gui: the three results panes; cli: what a command showed
    threads,        \* gui: the background threads alive
    after_queue,    \* gui: callbacks queued with root.after(0, ...)
    acts,           \* per action kind: the last user action and its requests
    clicks          \* gui: user events handled so far

clientVars == <<ai_client, last>>
sessionVars == <<provider, api_key>>
folderVars == <<papers_folder, loaded_papers, scan>>
workVars == <<btn, results, threads, after_queue, acts>>
mainVars == <<program, pc, clicks>>
vars == <<program, pc, ai_client, last, provider, api_key, papers_folder,
          loaded_papers, scan, btn, results, threads, after_queue, acts, clicks>>

-----------------------------------------------------------------------------
(* Bounds and input domains                                                *)

\* threads of one action kind the model lets live at once
MaxThreads == 2
\* button clicks (Save, a Load that passes its checks, Search / Analyze /
\* Verify) the GUI handles in one run
MaxClicks == 3

Kinds == {"search", "analyze", "verify"}

\* provider names a caller may pass; "Claude" exercises provider.lower()
ProviderNames == {"claude", "Claude", "chatgpt", "gemini"}
\* the two radio buttons of the GUI / the two choices of the CLI prompt
ProviderChoices == {"claude", "chatgpt"}
\* credentials: the empty string and two keys
Keys == {"", "key1", "key2"}

-----------------------------------------------------------------------------
(* Strings                                                                 *)

ErrorPrefix == "Error: "
ErrorString(e) == <<ErrorPrefix, e>>
StartsWithError(s) == Len(s) > 0 /\ s[1] = ErrorPrefix

lower(p) == IF p = "Claude" THEN "claude" ELSE p

-----------------------------------------------------------------------------
(* AIClient (research_agent_gui.py)                                        *)

NoObject == [cls |-> "None"]
NoHandle == [backend |-> "None"]
Handle(backend, key) == [backend |-> backend, api_key |-> key]

\* the provider's answer to one request: a reply text, or an exception
CallErrors == {"APIError"}
ReplyTexts == {<<"prose">>, <<"intro", "[", "{A}", "]">>, <<"[", "x", "]">>}
Outcomes == [ok : {TRUE}, text : ReplyTexts, err : {""}]
            \cup [ok : {FALSE}, text : {<<>>}, err : CallErrors]
\* only a search reads its reply; the other actions show it as it is
OutcomesFor(k) ==
    IF k = "search" THEN Outcomes
    ELSE {o \in Outcomes : o.text \in {<<>>, <<"prose">>}}

\* response.content of the anthropic SDK: a tool block, then text blocks
AnthropicContent(text) ==
    <<[has_text |-> FALSE, text |-> <<>>]>>
    \o [i \in 1..Len(text) |-> [has_text |-> TRUE, text |-> <<text[i]>>]]
\* response.choices of the openai SDK
OpenAIChoices(text) == <<text>>

is_ready(self) == self.client # NoHandle

\* the configuration operations return the object and how the call ended:
\* raised (an exception left the method) and failed (the SDK constructor was
\* called and threw)
initialize_client(self, ok) ==
    IF self.api_key = ""
    THEN [self |-> self, raised |-> FALSE, failed |-> FALSE]
    ELSE IF self.provider \in {"claude", "chatgpt"}
         THEN IF ok
              THEN [self |-> [self EXCEPT !.client =
                                 Handle(IF self.provider = "claude"
                                        THEN "anthropic" ELSE "openai",
                                        self.api_key)],
                    raised |-> FALSE, failed |-> FALSE]
              ELSE [self |-> [self EXCEPT !.client = NoHandle],
                    raised |-> FALSE, failed |-> TRUE]
         ELSE [self |-> self, raised |-> FALSE, failed |-> FALSE]

AIClient_init(p, key, ok) ==
    initialize_client([cls |-> "gui", provider |-> lower(p), api_key |-> key,
                       client |-> NoHandle], ok)

set_provider(self, p, key, ok) ==
    initialize_client([self EXCEPT !.provider = lower(p), !.api_key = key], ok)

\* a caller that keeps the conversation and sends it along
Messages_with_history(prompt) ==
    <<[role |-> "user", content |-> "earlier prompt"],
      [role |-> "assistant", content |-> "earlier reply"],
      [role |-> "user", content |-> prompt]>>

\* one message list per call: a single user message carrying the prompt
Messages(prompt) == <<[role |-> "user", content |-> prompt]>>

RECURSIVE JoinText(_)
JoinText(blocks) ==
    IF blocks = <<>> THEN <<>>
    ELSE (IF Head(blocks).has_text THEN Head(blocks).text ELSE <<>>)
         \o JoinText(Tail(blocks))

\* _claude_chat up to the SDK call: the request, or the AttributeError of a
\* handle that is not an anthropic client
claude_chat_send(self, messages, use_web_search) ==
    IF self.client.backend = "anthropic"
    THEN [sent |-> TRUE,
          request |-> [backend |-> "anthropic",
                       model |-> "claude-sonnet-4-20250514",
                       max_tokens |-> 4096,
                       messages |-> messages,
                       tools |-> IF use_web_search THEN <<"web_search">> ELSE <<>>]]
    ELSE [sent |-> FALSE, exc |-> "AttributeError"]

\* _claude_chat after the SDK call returned: the text blocks, concatenated
claude_chat_text(outcome) == JoinText(AnthropicContent(outcome.text))

chatgpt_chat_send(self, messages, use_web_search) ==
    IF self.client.backend = "openai"
    THEN [sent |-> TRUE,
          request |-> [backend |-> "openai",
                       model |-> IF use_web_search THEN "gpt-4o" ELSE "gpt-4o-mini",
                       max_tokens |-> 4096,
                       messages |-> [i \in 1..Len(messages) |->
                                       [role |-> messages[i].role,
                                        content |-> messages[i].content]],
                       tools |-> <<>>]]
    ELSE [sent |-> FALSE, exc |-> "AttributeError"]

chatgpt_chat_text(outcome) == OpenAIChoices(outcome.text)[1]

\* chat up to the point where it blocks in the SDK: either it has returned
\* already (done, with ret) or one request is on the wire
chat_send(self, messages, use_web_search) ==
    IF ~is_ready(self)
    THEN [done |-> TRUE, requests |-> <<>>,
          ret |-> ErrorString("API client not initialized. Please check your API key.")]
    ELSE IF self.provider \in {"claude", "chatgpt"}
         THEN LET s == IF self.provider = "claude"
                       THEN claude_chat_send(self, messages, use_web_search)
                       ELSE chatgpt_chat_send(self, messages, use_web_search)
              IN  IF s.sent
                  THEN [done |-> FALSE, requests |-> <<s.request>>, ret |-> <<>>]
                  ELSE [done |-> TRUE, requests |-> <<>>, ret |-> ErrorString(s.exc)]
         ELSE [done |-> TRUE, requests |-> <<>>,
               ret |-> ErrorString("Unknown provider")]

\* chat with the try/except of lines 90-98 removed: the exception leaves chat
chat_return_no_except(self, request, outcome) ==
    IF outcome.ok
    THEN [ret |-> IF request.backend = "anthropic"
                  THEN claude_chat_text(outcome) ELSE chatgpt_chat_text(outcome),
          raised |-> FALSE, self |-> self]
    ELSE [ret |-> <<>>, raised |-> TRUE, self |-> self]

\* chat whose except clause also drops the backend handle
chat_return_drop_handle(self, request, outcome) ==
    IF outcome.ok
    THEN [ret |-> IF request.backend = "anthropic"
                  THEN claude_chat_text(outcome) ELSE chatgpt_chat_text(outcome),
          raised |-> FALSE, self |-> self]
    ELSE [ret |-> ErrorString(outcome.err), raised |-> FALSE,
          self |-> [self EXCEPT !.client = NoHandle]]

\* chat once the SDK call has ended with `outcome`: the except clause turns an
\* exception into an error string
chat_return(self, request, outcome) ==
    IF outcome.ok
    THEN [ret |-> IF request.backend = "anthropic"
                  THEN claude_chat_text(outcome) ELSE chatgpt_chat_text(outcome),
          raised |-> FALSE, self |-> self]
    ELSE [ret |-> ErrorString(outcome.err), raised |-> FALSE, self |-> self]

\* the whole of chat, for a caller that waits for it
chat(self, messages, use_web_search, outcome) ==
    LET s == chat_send(self, messages, use_web_search)
    IN  IF s.done
        THEN [ret |-> s.ret, raised |-> FALSE, self |-> self, requests |-> <<>>]
        ELSE LET r == chat_return(self, s.requests[1], outcome)
             IN  [ret |-> r.ret, raised |-> r.raised, self |-> r.self,
                  requests |-> s.requests]

-----------------------------------------------------------------------------
(* AIClient (research_agent_cli.py)                                        *)

\* __init__ calls the SDK constructor with no try around it
CliAIClient_init(p, key, ok) ==
    IF ok
    THEN [self |-> [cls |-> "cli", provider |-> p, api_key |-> key,
                    client |-> Handle(IF p = "claude" THEN "anthropic" ELSE "openai",
                                      key)],
          raised |-> FALSE, failed |-> FALSE]
    ELSE [self |-> NoObject, raised |-> TRUE, failed |-> TRUE]

cli_chat(self, prompt, use_web, outcome) ==
    LET messages == Messages(prompt)
        request == IF self.provider = "claude"
                   THEN [backend |-> "anthropic",
                         model |-> "claude-sonnet-4-20250514",
                         max_tokens |-> 4096, messages |-> messages,
                         tools |-> IF use_web THEN <<"web_search">> ELSE <<>>]
                   ELSE [backend |-> "openai", model |-> "gpt-4o",
                         max_tokens |-> 4096, messages |-> messages,
                         tools |-> <<>>]
    IN  IF outcome.ok
        THEN [ret |-> IF self.provider = "claude"
                      THEN claude_chat_text(outcome) ELSE chatgpt_chat_text(outcome),
              raised |-> FALSE, self |-> self, requests |-> <<request>>]
        ELSE [ret |-> ErrorString(outcome.err), raised |-> FALSE, self |-> self,
              requests |-> <<request>>]

-----------------------------------------------------------------------------
(* program = "api": a caller drives one AIClient object through its public *)
(* methods, in any order and with any arguments                            *)

NoOp == [op |-> "none", raised |-> FALSE, failed |-> FALSE, answered |-> FALSE,
         ret |-> <<>>, before |-> NoObject, after |-> NoObject]

\* x = Cls(...): the name is bound only if the constructor returns
ApiConstruct(cls, p, key, ok) ==
    /\ program = "api"
    /\ LET r == IF cls = "gui" THEN AIClient_init(p, key, ok)
                ELSE CliAIClient_init(p, key, ok)
       IN  /\ ai_client' = IF r.raised THEN ai_client ELSE r.self
           /\ last' = [op |-> "construct", raised |-> r.raised,
                       failed |-> r.failed, answered |-> FALSE, ret |-> <<>>,
                       before |-> ai_client, after |-> ai_client']
    /\ UNCHANGED <<mainVars, sessionVars, folderVars, workVars>>

ApiSetProvider(p, key, ok) ==
    /\ program = "api"
    /\ ai_client.cls = "gui"
    /\ LET r == set_provider(ai_client, p, key, ok)
       IN  /\ ai_client' = r.self
           /\ last' = [op |-> "set_provider", raised |-> r.raised,
                       failed |-> r.failed, answered |-> FALSE, ret |-> <<>>,
                       before |-> ai_client, after |-> ai_client']
    /\ UNCHANGED <<mainVars, sessionVars, folderVars, workVars>>

ApiChat(use_web, outcome) ==
    /\ program = "api"
    /\ ai_client # NoObject
    /\ LET r == IF ai_client.cls = "gui"
                THEN chat(ai_client, Messages(<<"prompt">>), use_web, outcome)
                ELSE cli_chat(ai_client, <<"prompt">>, use_web, outcome)
       IN  /\ ai_client' = r.self
           /\ last' = [op |-> "chat", raised |-> r.raised, failed |-> FALSE,
                       answered |-> r.requests # <<>> /\ outcome.ok,
                       ret |-> r.ret, before |-> ai_client, after |-> ai_client']
    /\ UNCHANGED <<mainVars, sessionVars, folderVars, workVars>>

ApiNext ==
    \/ \E cls \in {"gui", "cli"}, p \in ProviderNames, key \in Keys, ok \in BOOLEAN :
          ApiConstruct(cls, p, key, ok)
    \/ \E p \in ProviderNames, key \in Keys, ok \in BOOLEAN : ApiSetProvider(p, key, ok)
    \/ \E use_web \in BOOLEAN, outcome \in Outcomes : ApiChat(use_web, outcome)

InitApi ==
    /\ program = "api"
    /\ pc = "api" /\ clicks = 0
    /\ ai_client = NoObject
    /\ last = NoOp
    /\ provider = "" /\ api_key = ""
    /\ papers_folder = "" /\ loaded_papers = <<>> /\ scan = <<>>
    /\ btn = [k \in Kinds |-> "normal"]
    /\ results = [k \in Kinds |-> <<>>]
    /\ threads = [k \in Kinds |-> <<>>]
    /\ after_queue = <<>>
    /\ acts = [k \in Kinds |-> [state |-> "none", nreq |-> 0, called |-> FALSE,
                                 single |-> TRUE]]

-----------------------------------------------------------------------------
(* The filesystem the programs scan                                        *)

\* what the user can put in the folder entry / after the folder command
FolderInputs == {"", "/a", "/b", "/nowhere"}
Exists(folder) == folder \in {"/a", "/b"}
\* path.glob("**/*.pdf"), in enumeration order
Glob(folder) ==
    IF folder = "/a" THEN <<"/a/x.pdf", "/a/bad.pdf">>
    ELSE IF folder = "/b" THEN <<"/b/y.pdf">>
    ELSE <<>>
\* fitz.open succeeds
Readable(path) == path # "/a/bad.pdf"
Basename(path) ==
    IF path = "/a/x.pdf" THEN "x.pdf"
    ELSE IF path = "/a/bad.pdf" THEN "bad.pdf"
    ELSE "y.pdf"
\* characters of text on each page of a readable PDF
PageChars(path) == IF path = "/b/y.pdf" THEN <<30000, 0, 30000>> ELSE <<100, 20>>

\* str.strip() on the inputs the model uses: " " is the all-blank input
strip(s) == IF s = " " THEN "" ELSE s

Take(seq, n) == SubSeq(seq, 1, IF Len(seq) < n THEN Len(seq) ELSE n)

\* a Python dict: pairs in insertion order, one pair per key
DictHas(d, k) == \E i \in 1..Len(d) : d[i].key = k
DictSetAppend(d, k, v) == Append(d, [key |-> k, value |-> v])
DictSet(d, k, v) ==
    IF DictHas(d, k)
    THEN [i \in 1..Len(d) |-> IF d[i].key = k THEN [key |-> k, value |-> v] ELSE d[i]]
    ELSE Append(d, [key |-> k, value |-> v])
DictKeys(d) == {d[i].key : i \in 1..Len(d)}

-----------------------------------------------------------------------------
(* PDFProcessor (research_agent_gui.py)                                    *)

\* documents per analyze prompt, pages per document, characters per document
AnalyzeCap == 10
MaxPages == 30
GuiBudget == 50000
CliBudget == 40000
\* len("\n... [truncated]") and len("\n...[truncated]")
GuiMarkerLen == 16
CliMarkerLen == 15

\* get_metadata whose except clause forgets the error marker
get_metadata_drop(path) == [filename |-> Basename(path), path |-> path]

get_metadata(path) ==
    IF Readable(path)
    THEN [title |-> "Unknown", author |-> "Unknown",
          pages |-> Len(PageChars(path)),
          filename |-> Basename(path), path |-> path]
    ELSE [error |-> "cannot open", filename |-> Basename(path), path |-> path]

IsErrorMarked(meta) == "error" \in DOMAIN meta
IsUsable(meta) == "pages" \in DOMAIN meta

\* a text is its length in characters and whether it ends with the marker
RECURSIVE GuiJoinedLen(_, _)
GuiJoinedLen(pages, i) ==
    IF i > Len(pages) THEN 0
    ELSE LET rest == GuiJoinedLen(pages, i + 1)
             part == IF pages[i] > 0 THEN 15 + pages[i] ELSE 0
         IN  IF part = 0 THEN rest
             ELSE IF rest = 0 THEN part ELSE part + 2 + rest

extract_text(path, max_pages) ==
    IF Readable(path)
    THEN [len |-> GuiJoinedLen(Take(PageChars(path), max_pages), 1),
          marked |-> FALSE, error |-> FALSE]
    ELSE [len |-> 18, marked |-> FALSE, error |-> TRUE]

\* a truncation that keeps the whole text
GuiTruncate_whole(text) == text

\* lines 621-623 / 676-678: cut to 50000 characters and append the marker
GuiTruncate(text) ==
    IF text.len > GuiBudget
    THEN [text EXCEPT !.len = GuiBudget + GuiMarkerLen, !.marked = TRUE]
    ELSE text

GuiBlock(item) ==
    [filename |-> item.value.filename,
     text |-> GuiTruncate(extract_text(item.key, MaxPages))]

-----------------------------------------------------------------------------
(* Reading the reply of a search (find_papers.search, lines 547-556)       *)

\* tokens that json.loads reads as one array element: objects and a number
JsonObjects == {"{A}", "{B}"}
JsonValues == JsonObjects \cup {"1"}

\* re.search(r'\[[\s\S]*\]', s): the first "[" that has a "]" after it,
\* up to the last "]"
HasSpan(s) == \E i, j \in 1..Len(s) : i < j /\ s[i] = "[" /\ s[j] = "]"
SpanStart(s) == CHOOSE i \in 1..Len(s) :
    s[i] = "[" /\ \A h \in 1..(i - 1) : s[h] # "["
SpanEnd(s) == CHOOSE j \in 1..Len(s) :
    s[j] = "]" /\ \A h \in (j + 1)..Len(s) : s[h] # "]"
Span(s) == SubSeq(s, SpanStart(s), SpanEnd(s))

\* json.loads on a span: the elements between the outer brackets
JsonInner(span) == SubSeq(span, 2, Len(span) - 1)
JsonParses(span) == \A i \in 1..Len(JsonInner(span)) : JsonInner(span)[i] \in JsonValues

\* re.search followed by json.loads(match.group()) (gui 548-550, cli 184-187):
\* the list it yields, if there is a span and it parses
parse_reply(reply) ==
    IF HasSpan(reply) /\ JsonParses(Span(reply))
    THEN [ok |-> TRUE, papers |-> JsonInner(Span(reply))]
    ELSE [ok |-> FALSE, papers |-> <<>>]

format_papers(papers) ==
    IF papers = <<>> THEN [raised |-> FALSE, text |-> <<"No papers found.">>]
    ELSE IF \E i \in 1..Len(papers) : papers[i] \notin JsonObjects
         THEN [raised |-> TRUE, text |-> <<>>]
         ELSE [raised |-> FALSE,
               text |-> <<"Found ", Len(papers), " papers:">> \o papers]

\* the result the search worker hands over for a reply text
gui_search_result(response) ==
    IF HasSpan(response)
    THEN IF ~JsonParses(Span(response))
         THEN ErrorString("JSONDecodeError")
         ELSE LET f == format_papers(JsonInner(Span(response)))
              IN  IF f.raised THEN ErrorString("AttributeError") ELSE f.text
    ELSE <<"Could not parse results. Raw response:">> \o response

-----------------------------------------------------------------------------
(* program = "gui": ResearchAgentGUI.  The Tk main thread runs one handler *)
(* at a time; each accepted action starts one daemon thread, whose steps   *)
(* interleave with the main thread's.                                      *)

QueryInputs == {"", " ", "q"}
ParagraphInputs == {"", "Paste your paragraph here...", "para"}
KeyInputs == {"", " ", "key1"}
EnvKeys == {"", "key1"}

upper(p) == IF p = "claude" THEN "CLAUDE" ELSE IF p = "chatgpt" THEN "CHATGPT" ELSE p

SearchPrompt(query) == [task |-> "search", query |-> query]
AnalyzePrompt(docs, query) == [task |-> "analyze", docs |-> docs, question |-> query]
VerifyPrompt(docs, paragraph, task) ==
    [task |-> "verify", docs |-> docs, paragraph |-> paragraph, instruction |-> task]

\* bookkeeping: state, the requests it put on the wire (nreq), whether chat
\* was called on a ready client (called), and whether every request held
\* exactly one user message carrying the action's own prompt (single)
NoAct == [state |-> "none", nreq |-> 0, called |-> FALSE, single |-> TRUE]
Rejected == [NoAct EXCEPT !.state = "rejected"]
Running == [NoAct EXCEPT !.state = "running"]
SingleUserMessage(requests, prompt) ==
    \A i \in 1..Len(requests) :
        requests[i].messages = <<[role |-> "user", content |-> prompt]>>

\* n0: the documents loaded when the handler accepted the action (the check
\* `if not self.loaded_papers` of lines 603 / 658 saw that many)
NewThread(query, paragraph, task) ==
    [pc |-> "start", query |-> query, paragraph |-> paragraph, task |-> task,
     docs |-> <<>>, idx |-> 0, size0 |-> 0, live |-> FALSE, view |-> <<>>,
     self |-> NoObject, request |-> <<>>, n0 |-> 0]

\* all of threads[k] but thread i, which has ended
Without(ts, k, i) ==
    [ts EXCEPT ![k] = SubSeq(@, 1, i - 1) \o SubSeq(@, i + 1, Len(@))]

\* line 558 / 641 / 703, the worker's last statement:
\* self.root.after(0, lambda: self.show_xxx_results(result))
Posted(queue, k, result) == Append(queue, [kind |-> k, result |-> result])

\* `self.ai_client and self.ai_client.is_ready()`
ClientUsable == ai_client # NoObject /\ is_ready(ai_client)

\* a handler that forgets to disable its button
DisableButton_forgot(b, k) == b

\* a show_xxx_results that forgets to re-enable its button
EnableButton_forgot(b, k) == b

\* xxx_btn.config(state=tk.DISABLED) / (state=tk.NORMAL)
DisableButton(b, k) == [b EXCEPT ![k] = "disabled"]
EnableButton(b, k) == [b EXCEPT ![k] = "normal"]

\* load_saved_settings, run once by __init__ (provider defaults to "claude")
load_saved_settings(claude_key, openai_key, ok) ==
    IF claude_key # ""
    THEN [provider |-> "claude", api_key |-> claude_key,
          ai_client |-> AIClient_init("claude", claude_key, ok).self]
    ELSE IF openai_key # ""
         THEN [provider |-> "chatgpt", api_key |-> openai_key,
               ai_client |-> AIClient_init("chatgpt", openai_key, ok).self]
         ELSE [provider |-> "claude", api_key |-> "", ai_client |-> NoObject]

GuiSaveApiKey(key_input, provider_var, ok) ==
    /\ program = "gui" /\ pc = "mainloop"
    /\ api_key' = strip(key_input)
    /\ provider' = provider_var
    /\ ai_client' = IF api_key' = "" THEN ai_client
                    ELSE AIClient_init(provider', api_key', ok).self
    /\ clicks < MaxClicks /\ clicks' = clicks + 1
    /\ UNCHANGED <<program, pc, last, folderVars, workVars>>

\* load_folder, lines 488-492: rebind to an empty dict, list the PDFs
load_folder_begin(folder, papers) ==
    [papers_folder |-> folder, loaded_papers |-> <<>>, pdf_files |-> Glob(folder)]

\* a thread iterating the dict that load_folder unbinds keeps the old object
Unbind(ts) ==
    [k \in Kinds |->
        [i \in 1..Len(ts[k]) |->
            IF ts[k][i].live
            THEN [ts[k][i] EXCEPT !.live = FALSE, !.view = loaded_papers]
            ELSE ts[k][i]]]

GuiLoadFolder(folder_var) ==
    /\ program = "gui" /\ pc = "mainloop"
    /\ LET folder == strip(folder_var)
       IN  IF folder = "" \/ ~Exists(folder)
           THEN UNCHANGED <<pc, folderVars, threads, clicks>>
           ELSE LET b == load_folder_begin(folder, loaded_papers)
                IN  /\ papers_folder' = b.papers_folder
                    /\ loaded_papers' = b.loaded_papers
                    /\ scan' = b.pdf_files
                    /\ pc' = IF b.pdf_files = <<>> THEN "mainloop" ELSE "scanning"
                    /\ threads' = Unbind(threads)
                    /\ clicks < MaxClicks /\ clicks' = clicks + 1
    /\ UNCHANGED <<program, clientVars, sessionVars, btn, results, after_queue, acts>>

\* one turn of the loop of lines 494-498; after the last one the handler ends
GuiScanStep ==
    /\ program = "gui" /\ pc = "scanning"
    /\ loaded_papers' = DictSet(loaded_papers, Head(scan), get_metadata(Head(scan)))
    /\ scan' = Tail(scan)
    /\ pc' = IF scan' = <<>> THEN "mainloop" ELSE "scanning"
    /\ UNCHANGED <<program, clicks, clientVars, sessionVars, papers_folder, workVars>>

\* a handler that empties its results pane before it checks its preconditions
Trigger_clears_first(k, reject, t, banner) ==
    /\ program = "gui" /\ pc = "mainloop"
    /\ btn[k] = "normal"
    /\ Len(threads[k]) < MaxThreads
    /\ clicks < MaxClicks /\ clicks' = clicks + 1
    /\ IF reject
       THEN /\ acts' = [acts EXCEPT ![k] = Rejected]
            /\ results' = [results EXCEPT ![k] = <<>>]
            /\ UNCHANGED <<btn, threads>>
       ELSE /\ btn' = DisableButton(btn, k)
            /\ results' = [results EXCEPT ![k] = banner]
            /\ threads' = [threads EXCEPT ![k] = Append(@, t)]
            /\ acts' = [acts EXCEPT ![k] = Running]
    /\ UNCHANGED <<program, pc, clientVars, sessionVars, folderVars, after_queue>>

\* the common shape of find_papers / analyze_papers / verify_citations
Trigger(k, reject, t, banner) ==
    /\ program = "gui" /\ pc = "mainloop"
    /\ btn[k] = "normal"
    /\ Len(threads[k]) < MaxThreads
    /\ clicks < MaxClicks /\ clicks' = clicks + 1
    /\ IF reject
       THEN /\ acts' = [acts EXCEPT ![k] = Rejected]
            /\ UNCHANGED <<btn, results, threads>>
       ELSE /\ btn' = DisableButton(btn, k)
            /\ results' = [results EXCEPT ![k] = banner]
            /\ threads' = [threads EXCEPT ![k] = Append(@, t)]
            /\ acts' = [acts EXCEPT ![k] = Running]
    /\ UNCHANGED <<program, pc, clientVars, sessionVars, folderVars, after_queue>>

GuiFindPapers(input) ==
    LET query == strip(input)
    IN  Trigger("search", query = "" \/ ~ClientUsable,
                NewThread(query, "", ""),
                <<"Searching for papers using ", upper(provider)>>)

GuiAnalyzePapers(input) ==
    LET query == strip(input)
    IN  Trigger("analyze", query = "" \/ loaded_papers = <<>> \/ ~ClientUsable,
                [NewThread(query, "", "") EXCEPT !.n0 = Len(loaded_papers)],
                <<"Reading and analyzing papers...">>)

GuiVerifyCitations(input, task_input) ==
    LET paragraph == strip(input)
        task == strip(task_input)
    IN  Trigger("verify",
                \/ paragraph = "" \/ paragraph = "Paste your paragraph here..."
                \/ loaded_papers = <<>> \/ ~ClientUsable,
                [NewThread("", paragraph, task) EXCEPT !.n0 = Len(loaded_papers)],
                <<"Reading papers and verifying citations...">>)

\* a main loop that runs no callback while some worker's call has not ended
GuiShowResults_waits ==
    /\ program = "gui" /\ pc = "mainloop"
    /\ after_queue # <<>>
    /\ \A k \in Kinds : \A i \in 1..Len(threads[k]) : threads[k][i].pc # "hung"
    /\ LET cb == Head(after_queue)
       IN  /\ results' = [results EXCEPT ![cb.kind] = cb.result]
           /\ btn' = EnableButton(btn, cb.kind)
           /\ acts' = [acts EXCEPT ![cb.kind].state = "done"]
    /\ after_queue' = Tail(after_queue)
    /\ UNCHANGED <<mainVars, clientVars, sessionVars, folderVars, threads>>

\* show_finder_results / show_analyzer_results / show_verifier_results, run by
\* the main loop for the oldest queued callback
GuiShowResults ==
    /\ program = "gui" /\ pc = "mainloop"
    /\ after_queue # <<>>
    /\ LET cb == Head(after_queue)
       IN  /\ results' = [results EXCEPT ![cb.kind] = cb.result]
           /\ btn' = EnableButton(btn, cb.kind)
           /\ acts' = [acts EXCEPT ![cb.kind].state = "done"]
    /\ after_queue' = Tail(after_queue)
    /\ UNCHANGED <<mainVars, clientVars, sessionVars, folderVars, threads>>

(* the background threads *)

\* analyze, lines 617-625: one snapshot of the dict, then the documents' text
ThreadRead(i) ==
    /\ program = "gui"
    /\ i \in 1..Len(threads["analyze"])
    /\ threads["analyze"][i].pc = "start"
    /\ LET items == Take(loaded_papers, AnalyzeCap)
       IN  threads' = [threads EXCEPT !["analyze"][i] =
                          [@ EXCEPT !.pc = "read",
                                    !.docs = [j \in 1..Len(items) |-> GuiBlock(items[j])]]]
    /\ UNCHANGED <<mainVars, clientVars, sessionVars, folderVars, btn, results,
                   after_queue, acts>>

\* verify, line 674: the for loop takes an iterator over the dict now bound
ThreadIterBegin(i) ==
    /\ program = "gui"
    /\ i \in 1..Len(threads["verify"])
    /\ threads["verify"][i].pc = "start"
    /\ threads' = [threads EXCEPT !["verify"][i] =
                      [@ EXCEPT !.pc = "iter", !.live = TRUE,
                                !.size0 = Len(loaded_papers)]]
    /\ UNCHANGED <<mainVars, clientVars, sessionVars, folderVars, btn, results,
                   after_queue, acts>>

\* verify, lines 674-678: the iterator's next(): RuntimeError if the dict has
\* changed size, the end of the loop, or one more document
ThreadIterNext(i) ==
    /\ program = "gui"
    /\ i \in 1..Len(threads["verify"])
    /\ threads["verify"][i].pc = "iter"
    /\ LET t == threads["verify"][i]
           d == IF t.live THEN loaded_papers ELSE t.view
       IN  IF Len(d) # t.size0
           THEN /\ threads' = Without(threads, "verify", i)
                /\ after_queue' = Posted(after_queue, "verify",
                      ErrorString("dictionary changed size during iteration"))
           ELSE /\ threads' = [threads EXCEPT !["verify"][i] =
                      IF t.idx >= Len(d)
                      THEN [t EXCEPT !.pc = "read", !.live = FALSE, !.view = <<>>]
                      ELSE [t EXCEPT !.idx = t.idx + 1,
                                     !.docs = Append(t.docs, GuiBlock(d[t.idx + 1]))]]
                /\ UNCHANGED after_queue
    /\ UNCHANGED <<mainVars, clientVars, sessionVars, folderVars, btn, results, acts>>

ThreadPrompt(k, t) ==
    IF k = "search" THEN SearchPrompt(t.query)
    ELSE IF k = "analyze" THEN AnalyzePrompt(t.docs, t.query)
    ELSE VerifyPrompt(t.docs, t.paragraph, t.task)

\* what the worker makes of chat's return value
ThreadResult(k, response) ==
    IF k = "search" THEN gui_search_result(response) ELSE response

\* the worker calls self.ai_client.chat(messages, use_web_search=...)
ThreadChatSend(k, i) ==
    /\ program = "gui"
    /\ i \in 1..Len(threads[k])
    /\ threads[k][i].pc = (IF k = "search" THEN "start" ELSE "read")
    /\ LET t == threads[k][i]
           use_web == (k = "search" /\ provider = "claude")
           s == chat_send(ai_client, Messages(ThreadPrompt(k, t)), use_web)
       IN  /\ IF s.done
              THEN /\ threads' = Without(threads, k, i)
                   /\ after_queue' = Posted(after_queue, k, ThreadResult(k, s.ret))
              ELSE /\ threads' = [threads EXCEPT ![k][i] =
                                     [t EXCEPT !.pc = "calling", !.self = ai_client,
                                               !.request = s.requests]]
                   /\ UNCHANGED after_queue
           /\ acts' = [acts EXCEPT ![k].nreq = @ + Len(s.requests),
                                   ![k].called = is_ready(ai_client),
                                   ![k].single = SingleUserMessage(s.requests,
                                                                   ThreadPrompt(k, t))]
    /\ UNCHANGED <<mainVars, clientVars, sessionVars, folderVars, btn, results>>

\* the SDK call ends; an exception that left chat would be caught by the
\* worker's own except clause (lines 555, 638, 700); the worker then queues
\* its result and ends
ThreadChatReturn(k, i, outcome) ==
    /\ program = "gui"
    /\ i \in 1..Len(threads[k])
    /\ threads[k][i].pc = "calling"
    /\ LET t == threads[k][i]
           r == chat_return(t.self, t.request[1], outcome)
       IN  /\ threads' = Without(threads, k, i)
           /\ after_queue' = Posted(after_queue, k,
                                    IF r.raised THEN ErrorString(outcome.err)
                                    ELSE ThreadResult(k, r.ret))
           /\ ai_client' = IF ai_client = t.self THEN r.self ELSE ai_client
    /\ UNCHANGED <<mainVars, last, sessionVars, folderVars, btn, results, acts>>

\* no timeout: the SDK call never ends
ThreadHang(k, i) ==
    /\ program = "gui"
    /\ i \in 1..Len(threads[k])
    /\ threads[k][i].pc = "calling"
    /\ threads' = [threads EXCEPT ![k][i].pc = "hung"]
    /\ UNCHANGED <<mainVars, clientVars, sessionVars, folderVars, btn, results,
                   after_queue, acts>>

\* the steps a scheduled thread of kind k takes by itself
ThreadStep(k) ==
    \/ k = "analyze" /\ \E i \in 1..MaxThreads : ThreadRead(i)
    \/ k = "verify" /\ \E i \in 1..MaxThreads : ThreadIterBegin(i)
    \/ k = "verify" /\ \E i \in 1..MaxThreads : ThreadIterNext(i)
    \/ \E i \in 1..MaxThreads : ThreadChatSend(k, i)
    \/ \E i \in 1..MaxThreads, outcome \in OutcomesFor(k) :
          ThreadChatReturn(k, i, outcome)

GuiNext ==
    \/ \E key_input \in KeyInputs, provider_var \in ProviderChoices, ok \in BOOLEAN :
          GuiSaveApiKey(key_input, provider_var, ok)
    \/ \E folder_var \in FolderInputs : GuiLoadFolder(folder_var)
    \/ GuiScanStep
    \/ \E input \in QueryInputs : GuiFindPapers(input)
    \/ \E input \in QueryInputs : GuiAnalyzePapers(input)
    \/ \E input \in ParagraphInputs : GuiVerifyCitations(input, "task")
    \/ GuiShowResults
    \/ \E k \in Kinds : ThreadStep(k)
    \/ \E k \in Kinds, i \in 1..MaxThreads : ThreadHang(k, i)

InitGui ==
    /\ program = "gui"
    /\ pc = "mainloop" /\ clicks = 0
    /\ last = NoOp
    /\ \E claude_key \in EnvKeys, openai_key \in EnvKeys, ok \in BOOLEAN :
          LET st == load_saved_settings(claude_key, openai_key, ok)
          IN  provider = st.provider /\ api_key = st.api_key /\ ai_client = st.ai_client
    /\ papers_folder = "" /\ loaded_papers = <<>> /\ scan = <<>>
    /\ btn = [k \in Kinds |-> "normal"]
    /\ results = [k \in Kinds |-> <<>>]
    /\ threads = [k \in Kinds |-> <<>>]
    /\ after_queue = <<>>
    /\ acts = [k \in Kinds |-> NoAct]

-----------------------------------------------------------------------------
(* program = "cli": main() of research_agent_cli.py.  One command runs to  *)
(* its end before the next prompt; `list`, `help` and unknown commands     *)
(* only print and are left out.                                            *)

RECURSIVE CliJoinedLen(_, _)
CliJoinedLen(pages, i) ==
    IF i > Len(pages) THEN 0
    ELSE pages[i] + (IF i < Len(pages) THEN 2 ELSE 0) + CliJoinedLen(pages, i + 1)

extract_pdf_text(path, max_pages) ==
    IF Readable(path)
    THEN [len |-> CliJoinedLen(Take(PageChars(path), max_pages), 1),
          marked |-> FALSE, error |-> FALSE]
    ELSE [len |-> 30, marked |-> FALSE, error |-> TRUE]

\* analyze, lines 219-220
CliTruncateAnalyze(text) ==
    IF text.len > CliBudget
    THEN [text EXCEPT !.len = CliBudget + CliMarkerLen, !.marked = TRUE]
    ELSE text

\* verify, lines 254-255
CliTruncateVerify(text) ==
    IF text.len > CliBudget THEN [text EXCEPT !.len = CliBudget] ELSE text

CliAnalyzeDocs(papers) ==
    LET items == Take(papers, AnalyzeCap)
    IN  [j \in 1..Len(items) |->
            [filename |-> items[j].value.filename,
             text |-> CliTruncateAnalyze(extract_pdf_text(items[j].key, MaxPages))]]

CliVerifyDocs(papers) ==
    [j \in 1..Len(papers) |->
        [filename |-> papers[j].value.filename,
         text |-> CliTruncateVerify(extract_pdf_text(papers[j].key, MaxPages))]]

\* what `find` prints for chat's return value (lines 184-204, 291-292)
cli_find_display(result) ==
    IF HasSpan(result)
    THEN IF ~JsonParses(Span(result))
         THEN result
         ELSE LET papers == JsonInner(Span(result))
              IN  IF \E i \in 1..Len(papers) : papers[i] \notin JsonObjects
                  THEN <<"Found ", Len(papers), " papers:">> \o ErrorString("AttributeError")
                  ELSE <<"Found ", Len(papers), " papers:">> \o papers
    ELSE result

\* folder <path>, lines 150-152
cli_folder_begin(folder, papers) ==
    [papers_folder |-> folder, loaded_papers |-> <<>>, pdf_files |-> Glob(folder)]

\* the session state a command found: the folder and the document set
Session == [papers_folder |-> papers_folder, loaded_papers |-> loaded_papers]

\* while `folder` runs, `last` remembers the session state it started from
CliFolder(args) ==
    /\ program = "cli" /\ pc = "prompt"
    /\ IF args = "" \/ ~Exists(args)
       THEN UNCHANGED <<pc, folderVars, last>>
       ELSE LET b == cli_folder_begin(args, loaded_papers)
            IN  /\ papers_folder' = b.papers_folder
                /\ loaded_papers' = b.loaded_papers
                /\ scan' = b.pdf_files
                /\ pc' = IF b.pdf_files = <<>> THEN "prompt" ELSE "scanning"
                /\ last' = [op |-> "folder", before |-> Session, folder |-> args]
    /\ UNCHANGED <<program, clicks, ai_client, sessionVars, workVars>>

\* Ctrl-C inside `folder`: KeyboardInterrupt is raised in the loop of lines
\* 152-153 and caught by the handler of lines 289-290, which prints and goes
\* back to the prompt; the assignments already made stay.  (At the prompt and
\* inside find / analyze / verify no session variable is assigned, so an
\* interrupt there changes nothing and is left out.)
CliInterrupt ==
    /\ program = "cli" /\ pc = "scanning"
    /\ pc' = "prompt"
    /\ scan' = <<>>
    /\ last' = [op |-> "interrupt", folder |-> last.folder,
                as_before |-> (Session = last.before)]
    /\ UNCHANGED <<program, clicks, ai_client, sessionVars, papers_folder,
                   loaded_papers, workVars>>

\* one turn of the loop of lines 152-153
CliScanStep ==
    /\ program = "cli" /\ pc = "scanning"
    /\ loaded_papers' = DictSet(loaded_papers, Head(scan),
                                [filename |-> Basename(Head(scan)), path |-> Head(scan)])
    /\ scan' = Tail(scan)
    /\ pc' = IF scan' = <<>> THEN "prompt" ELSE "scanning"
    /\ last' = IF scan' = <<>> THEN NoOp ELSE last
    /\ UNCHANGED <<program, clicks, ai_client, sessionVars, papers_folder, workVars>>

\* the common shape of find / analyze / verify: one client.chat, one display
CliCommand(k, reject, prompt, use_web, outcome) ==
    /\ program = "cli" /\ pc = "prompt"
    /\ IF reject
       THEN /\ acts' = [acts EXCEPT ![k] = Rejected]
            /\ UNCHANGED <<ai_client, results>>
       ELSE LET r == cli_chat(ai_client, prompt, use_web, outcome)
            IN  /\ ai_client' = r.self
                /\ results' = [results EXCEPT ![k] =
                                  IF k = "search" THEN cli_find_display(r.ret) ELSE r.ret]
                /\ acts' = [acts EXCEPT ![k] =
                              [state |-> "done", nreq |-> Len(r.requests),
                               called |-> TRUE,
                               single |-> SingleUserMessage(r.requests, prompt)]]
    /\ UNCHANGED <<mainVars, last, sessionVars, folderVars, btn, threads, after_queue>>

CliFind(args, outcome) ==
    CliCommand("search", args = "", SearchPrompt(args), provider = "claude", outcome)

CliAnalyze(args, outcome) ==
    CliCommand("analyze", args = "" \/ loaded_papers = <<>>,
               AnalyzePrompt(CliAnalyzeDocs(loaded_papers), args), FALSE, outcome)

CliVerify(input, outcome) ==
    CliCommand("verify", loaded_papers = <<>> \/ strip(input) = "",
               VerifyPrompt(CliVerifyDocs(loaded_papers), strip(input), ""),
               FALSE, outcome)

CliQuit ==
    /\ program = "cli" /\ pc = "prompt"
    /\ pc' = "exited"
    /\ UNCHANGED <<program, clicks, clientVars, sessionVars, folderVars, workVars>>

CliNext ==
    \/ \E args \in FolderInputs : CliFolder(args)
    \/ CliScanStep
    \/ \E args \in {"", "q"}, outcome \in OutcomesFor("search") :
          CliFind(args, outcome)
    \/ \E args \in {"", "q"}, outcome \in OutcomesFor("analyze") :
          CliAnalyze(args, outcome)
    \/ \E input \in {" ", "para"}, outcome \in OutcomesFor("verify") :
          CliVerify(input, outcome)
    \/ CliInterrupt
    \/ CliQuit

\* lines 98-117: the provider and key come from the environment or the two
\* prompts; an exception of the constructor ends the program
InitCli ==
    /\ program = "cli"
    /\ clicks = 0
    /\ last = NoOp
    /\ \E p \in ProviderChoices, key \in EnvKeys \ {""}, ok \in BOOLEAN :
          LET r == CliAIClient_init(p, key, ok)
          IN  /\ provider = p /\ api_key = key
              /\ ai_client = r.self
              /\ pc = IF r.raised THEN "crashed" ELSE "prompt"
    /\ papers_folder = "" /\ loaded_papers = <<>> /\ scan = <<>>
    /\ btn = [k \in Kinds |-> "normal"]
    /\ results = [k \in Kinds |-> <<>>]
    /\ threads = [k \in Kinds |-> <<>>]
    /\ after_queue = <<>>
    /\ acts = [k \in Kinds |-> NoAct]

-----------------------------------------------------------------------------
(* program = "text": the text-handling code of the two programs, applied   *)
(* to texts and replies drawn from input sets; `last` holds the last       *)
(* application                                                             *)

\* the four places that cut a document's text to its budget
Sites == {"gui_analyze", "gui_verify", "cli_analyze", "cli_verify"}
GuiSites == {"gui_analyze", "gui_verify"}
Budget(site) == IF site \in GuiSites THEN GuiBudget ELSE CliBudget
TruncateAt(site, text) ==
    IF site \in GuiSites THEN GuiTruncate(text)
    ELSE IF site = "cli_analyze" THEN CliTruncateAnalyze(text)
    ELSE CliTruncateVerify(text)

\* lengths of extracted text around a budget B
TextLens(B) == {0, 1, B - 1, B, B + 1, B + 14, 2 * B}

TextTruncate(site, L) ==
    /\ program = "text"
    /\ LET text == [len |-> L, marked |-> FALSE, error |-> FALSE]
       IN  last' = [op |-> "truncate", site |-> site, input |-> text,
                    output |-> TruncateAt(site, text)]
    /\ UNCHANGED <<mainVars, ai_client, sessionVars, folderVars, workVars>>

\* replies: prose around one well-formed array of paper records ...
MaxRecords == 2
RECURSIVE SeqsUpTo(_, _)
SeqsUpTo(S, n) ==
    IF n = 0 THEN {<<>>}
    ELSE SeqsUpTo(S, n - 1)
         \cup {Append(q, x) : q \in {r \in SeqsUpTo(S, n - 1) : Len(r) = n - 1}, x \in S}
RecordArrays == SeqsUpTo(JsonObjects, MaxRecords)
ProseBefore == {<<>>, <<"p">>, <<"[", "1", "]", "p">>}
ProseAfter == {<<>>, <<"p">>, <<"p", "[", "2", "]">>}
EmbeddedReply(before, records, after) ==
    before \o <<"[">> \o records \o <<"]">> \o after
\* ... and replies with no array of records in them
PlainReplies ==
    {<<>>, <<"prose">>, <<"p", "]", "[">>, <<"[", "x", "]">>, <<"[", "1", "]">>,
     ErrorString("APIError")}

\* what the search action makes of a reply, in the GUI and in the CLI
Interpret(site, reply) ==
    IF site = "gui" THEN gui_search_result(reply) ELSE cli_find_display(reply)

TextInterpret(site, reply, embedded, records) ==
    /\ program = "text"
    /\ last' = [op |-> "interpret", site |-> site, input |-> reply,
                embedded |-> embedded, records |-> records,
                parsed |-> parse_reply(reply),
                output |-> Interpret(site, reply)]
    /\ UNCHANGED <<mainVars, ai_client, sessionVars, folderVars, workVars>>

TextNext ==
    \/ \E site \in Sites : \E L \in TextLens(Budget(site)) : TextTruncate(site, L)
    \/ \E site \in {"gui", "cli"}, reply \in PlainReplies :
          TextInterpret(site, reply, FALSE, <<>>)
    \/ \E site \in {"gui", "cli"}, before \in ProseBefore, records \in RecordArrays,
          after \in ProseAfter :
          TextInterpret(site, EmbeddedReply(before, records, after), TRUE, records)

InitText ==
    /\ program = "text"
    /\ pc = "text" /\ clicks = 0
    /\ ai_client = NoObject
    /\ last = NoOp
    /\ provider = "" /\ api_key = ""
    /\ papers_folder = "" /\ loaded_papers = <<>> /\ scan = <<>>
    /\ btn = [k \in Kinds |-> "normal"]
    /\ results = [k \in Kinds |-> <<>>]
    /\ threads = [k \in Kinds |-> <<>>]
    /\ after_queue = <<>>
    /\ acts = [k \in Kinds |-> NoAct]

Init == InitApi \/ InitGui \/ InitCli \/ InitText
Next == ApiNext \/ GuiNext \/ CliNext \/ TextNext
Spec == Init /\ [][Next]_vars

\* the OS runs every runnable thread, the Tk main loop runs every queued
\* callback, and the loop of load_folder goes on to its end
FairSpec ==
    /\ Spec
    /\ \A k \in Kinds : WF_vars(ThreadStep(k))
    /\ WF_vars(GuiShowResults)
    /\ WF_vars(GuiScanStep)

-----------------------------------------------------------------------------
(* Claims                                                                  *)

\* C1: AIClient.chat never raises outward: whatever the state of the client
\* and however backend construction or the provider call failed, a chat that
\* got no answer from the provider returns a string beginning with "Error: ".
C1_ChatNeverRaises ==
    last.op = "chat" =>
        /\ ~last.raised
        /\ (~last.answered => StartsWithError(last.ret))

\* a chat on a ready client whose provider call failed
C1_Witness ==
    /\ last.op = "chat"
    /\ last.before.cls = "gui"
    /\ is_ready(last.before)
    /\ ~last.answered
    /\ StartsWithError(last.ret)

\* C2: configuring a provider client (constructing AIClient, or calling
\* set_provider) never raises, and whenever the construction of the backend
\* handle fails the client reports not-ready afterwards.
C2_ConfigureNeverRaises ==
    last.op \in {"construct", "set_provider"} =>
        /\ ~last.raised
        /\ (last.failed => last.after.cls # "None" /\ ~is_ready(last.after))

\* C3: is_ready() is true only if the current provider is one of the two
\* backends and the current credential is a non-empty string.
C3_ReadyOnlyIfConfigured ==
    (ai_client.cls = "gui" /\ is_ready(ai_client)) =>
        /\ ai_client.provider \in {"claude", "chatgpt"}
        /\ ai_client.api_key # ""

\* C4: a chat call leaves the client as it found it: provider identity,
\* credential and backend handle, hence is_ready(), are the same after chat
\* returns as before it, for every outcome of the provider call.
C4_ChatKeepsClient ==
    last.op = "chat" =>
        /\ last.after = last.before
        /\ is_ready(last.after) = is_ready(last.before)

\* a chat whose provider call failed, on a client that was ready
C4_Witness ==
    /\ last.op = "chat"
    /\ is_ready(last.before)
    /\ last.ret = ErrorString("APIError")

\* actions of kind k in flight: its threads and its queued callbacks
InFlight(k) ==
    Len(threads[k]) + Cardinality({i \in 1..Len(after_queue) : after_queue[i].kind = k})
Hung(k) == \E i \in 1..Len(threads[k]) : threads[k][i].pc = "hung"
KeysOf(d) == [i \in 1..Len(d) |-> d[i].key]
Range(f) == {f[i] : i \in DOMAIN f}

\* C5 as stated: every user action search, analyze or verify issues exactly
\* one outbound chat request, carrying exactly one message (role user).
C5_ExactlyOneRequest ==
    \A k \in Kinds :
        acts[k].state \in {"rejected", "done"} =>
            acts[k].nreq = 1 /\ acts[k].single

\* C5 as amended: every action issues at most one outbound chat request, none
\* when its precondition check rejects it or its worker ends without calling
\* chat on a ready client, exactly one otherwise; every request carries exactly
\* one message, of role user, holding the action's own prompt.
C5_AtMostOneRequest ==
    \A k \in Kinds :
        /\ acts[k].nreq <= 1
        /\ acts[k].single
        /\ acts[k].state = "rejected" => acts[k].nreq = 0
        /\ acts[k].called => acts[k].nreq = 1
        /\ (acts[k].state = "done" /\ ~acts[k].called) => acts[k].nreq = 0

\* a verify action of the GUI that was delivered after one request
C5_Witness ==
    /\ program = "gui"
    /\ acts["verify"].state = "done"
    /\ acts["verify"].nreq = 1
    /\ btn["verify"] = "normal"

\* C6: in the GUI at most one worker of each kind is in flight, and the
\* action's button is disabled from the spawn of its worker until the
\* worker's result is delivered on the main thread.
C6_OneWorkerPerKind ==
    program = "gui" =>
        \A k \in Kinds :
            /\ InFlight(k) <= 1
            /\ InFlight(k) = 1 => btn[k] = "disabled"

\* a search worker waiting for the provider while its button is disabled
C6_Witness ==
    /\ program = "gui"
    /\ Len(threads["search"]) = 1
    /\ threads["search"][1].pc = "calling"
    /\ btn["search"] = "disabled"

\* C7: every worker whose provider call returns or fails hands over one
\* result and its button is re-enabled: a disabled button is eventually
\* enabled again unless the worker's provider call never ends.
C7_ButtonReenabled ==
    \A k \in Kinds : (btn[k] = "disabled") ~> (btn[k] = "normal" \/ Hung(k))

\* the result of a search whose reply did not parse as JSON was delivered
C7_Witness ==
    /\ program = "gui"
    /\ results["search"] = ErrorString("JSONDecodeError")
    /\ btn["search"] = "normal"
    /\ InFlight("search") = 0

\* C8: while an analyze or verify worker is in flight the loaded document
\* set is not modified.
C8_NoLoadWhileInFlight ==
    [][(\E k \in {"analyze", "verify"} : InFlight(k) > 0)
          => loaded_papers' = loaded_papers]_vars

\* C9: after any sequence of folder loads, whenever no load is running, the
\* document set holds exactly the PDF files found under the most recently
\* loaded folder, nothing of the folder loaded before, and one entry per path.
C9_ExactlyLastFolder ==
    (program \in {"gui", "cli"} /\ pc # "scanning") =>
        /\ DictKeys(loaded_papers) = Range(Glob(papers_folder))
        /\ Cardinality(DictKeys(loaded_papers)) = Len(loaded_papers)

\* C10: a scan over readable and failing PDFs goes through every file and
\* ends: each readable file has a usable entry, each failing file an
\* error-marked entry, the entries written so far plus the files still to do
\* are the folder, and a scan that has begun reaches its end.
C10_ScanKeepsEveryFile ==
    /\ [](program = "gui" =>
            /\ KeysOf(loaded_papers) \o scan = Glob(papers_folder)
            /\ pc = "mainloop" => scan = <<>>
            /\ \A i \in 1..Len(loaded_papers) :
                  LET e == loaded_papers[i]
                  IN  /\ e.value.path = e.key
                      /\ e.value.filename = Basename(e.key)
                      /\ IsUsable(e.value) <=> Readable(e.key)
                      /\ IsErrorMarked(e.value) <=> ~Readable(e.key))
    /\ (program = "gui" /\ pc = "scanning") ~> (pc = "mainloop")

\* the scan of /a has ended: one usable entry and one error-marked entry
C10_Witness ==
    /\ program = "gui" /\ pc = "mainloop"
    /\ papers_folder = "/a"
    /\ Len(loaded_papers) = 2
    /\ IsUsable(loaded_papers[1].value)
    /\ IsErrorMarked(loaded_papers[2].value)

\* length of the marker each site appends to a text it cut
MarkerLenAt(site) ==
    IF site \in GuiSites THEN GuiMarkerLen
    ELSE IF site = "cli_analyze" THEN CliMarkerLen ELSE 0

\* C11 as stated: the per-document text of a prompt has length exactly L when
\* L <= B and at most B + 14 when L > B (B = 40000 in the CLI, 50000 in the GUI).
C11_AtMostBudgetPlus14 ==
    last.op = "truncate" =>
        LET L == last.input.len
            B == Budget(last.site)
        IN  /\ L <= B => last.output.len = L
            /\ L > B => last.output.len <= B + 14

\* C11 as amended: the per-document text has length exactly L when L <= B, and
\* when L > B exactly B plus the length of the marker its site appends: 16 in
\* the GUI, 15 in the CLI's analyze, 0 in the CLI's verify; so at most B + 16.
C11_BudgetPlusMarker ==
    last.op = "truncate" =>
        LET L == last.input.len
            B == Budget(last.site)
        IN  /\ L <= B => last.output = last.input
            /\ L > B => last.output.len = B + MarkerLenAt(last.site)
            /\ last.output.len <= B + 16

\* a GUI text one character over the budget was cut and marked
C11_Witness ==
    /\ last.op = "truncate"
    /\ last.site = "gui_analyze"
    /\ last.input.len = GuiBudget + 1
    /\ last.output.len = GuiBudget + GuiMarkerLen

\* C12: in the analyze prompt and in the verify prompt a document's text ends
\* with the truncation marker if and only if its extracted text was longer
\* than the budget.
C12_MarkerIffTruncated ==
    last.op = "truncate" =>
        (last.output.marked <=> last.input.len > Budget(last.site))

Min(a, b) == IF a < b THEN a ELSE b
Filenames(docs) == {docs[i].filename : i \in 1..Len(docs)}

\* C13: for a loaded set of N documents the analyze prompt holds exactly
\* min(N, 10) document blocks and the verify prompt exactly N, one block per
\* loaded document and no document twice.
C13_OneBlockPerDocument ==
    program = "gui" =>
        \A k \in {"analyze", "verify"} :
            \A i \in 1..Len(threads[k]) :
                LET t == threads[k][i]
                IN  t.pc \in {"read", "calling", "hung"} =>
                        /\ Len(t.docs) = (IF k = "analyze" THEN Min(t.n0, AnalyzeCap)
                                          ELSE t.n0)
                        /\ Cardinality(Filenames(t.docs)) = Len(t.docs)

\* C14: for a reply with no bracket-delimited span the search action's result
\* is the reply itself, with nothing prepended or appended.
C14_NoSpanUnchanged ==
    (last.op = "interpret" /\ ~HasSpan(last.input)) =>
        last.output = last.input

\* C15: for a reply whose bracketed span is not a JSON array of record
\* objects the search action's result is the reply unchanged, never an
\* error message.
C15_ParseFailureUnchanged ==
    (/\ last.op = "interpret"
     /\ HasSpan(last.input)
     /\ \/ ~last.parsed.ok
        \/ \E i \in 1..Len(last.parsed.papers) : last.parsed.papers[i] \notin JsonObjects)
    => (last.output = last.input /\ ~StartsWithError(last.output))

\* C16: for a well-formed array of paper records embedded in any prose,
\* brackets in the prose included, interpreting the reply recovers the same
\* records in the same number.
C16_RoundTrip ==
    (last.op = "interpret" /\ last.embedded) =>
        (last.parsed.ok /\ last.parsed.papers = last.records)

\* C17: a KeyboardInterrupt inside a command of the CLI leaves the folder and
\* the document set either both as the command found them or both the
\* complete result of the command, never a new folder with a partly filled
\* set.
C17_InterruptKeepsSession ==
    (program = "cli" /\ last.op = "interrupt") =>
        \/ last.as_before
        \/ /\ papers_folder = last.folder
           /\ KeysOf(loaded_papers) = Glob(last.folder)

\* C18: a provider call that never returns blocks only its own worker: while
\* the worker of one action hangs, no other action's button is disabled
\* without a worker of its own, and a worker of another action that was
\* started still has its result displayed and its button re-enabled.
C18_HangBlocksOnlyItself ==
    /\ [](\A k \in Kinds : \A j \in Kinds \ {k} :
            (Hung(k) /\ InFlight(j) = 0) => btn[j] = "normal")
    /\ \A j \in Kinds :
          ((\E k \in Kinds \ {j} : Hung(k)) /\ btn[j] = "disabled")
              ~> (btn[j] = "normal" \/ Hung(j))

\* the search worker hangs; an analysis started after it was displayed
C18_Witness ==
    /\ program = "gui"
    /\ Hung("search")
    /\ acts["analyze"].state = "done"
    /\ acts["analyze"].nreq = 1
    /\ results["analyze"] = <<"prose">>
    /\ btn["analyze"] = "normal"

\* the handle _initialize_client builds for an object's provider and key
HandleFor(self) ==
    Handle(IF self.provider = "claude" THEN "anthropic" ELSE "openai", self.api_key)

\* C19: after any sequence of set_provider calls the backend handle of an
\* AIClient is absent or is the handle built for its current provider and
\* current credential; no handle of an earlier provider or credential stays.
C19_HandleIsCurrent ==
    (ai_client.cls = "gui" /\ ai_client.client # NoHandle) =>
        /\ ai_client.provider \in {"claude", "chatgpt"}
        /\ ai_client.client = HandleFor(ai_client)

\* C20: whenever the GUI has an AI client, the GUI's provider field equals the
\* client's provider, so the web-search flag of a search matches the backend
\* that receives the request.
C20_GuiProviderIsClientProvider ==
    (program = "gui" /\ ai_client # NoObject) =>
        /\ provider = ai_client.provider
        /\ \A i \in 1..Len(threads["search"]) :
              threads["search"][i].pc = "calling" =>
                  LET q == threads["search"][i].request[1]
                  IN  (q.tools # <<>>) <=> (q.backend = "anthropic")

\* a click on the button of kind k whose handler finds a precondition failed
RejectedClick(k) ==
    IF k = "search"
    THEN \E input \in QueryInputs :
            /\ strip(input) = "" \/ ~ClientUsable
            /\ GuiFindPapers(input)
    ELSE IF k = "analyze"
    THEN \E input \in QueryInputs :
            /\ strip(input) = "" \/ loaded_papers = <<>> \/ ~ClientUsable
            /\ GuiAnalyzePapers(input)
    ELSE \E input \in ParagraphInputs :
            /\ \/ strip(input) \in {"", "Paste your paragraph here..."}
               \/ loaded_papers = <<>> \/ ~ClientUsable
            /\ GuiVerifyCitations(input, "task")

\* C21: a GUI action whose precondition fails spawns no worker, issues no
\* provider request, and leaves its button enabled and its results pane, the
\* document set and the client unchanged.
C21_RejectedActionChangesNothing ==
    [][\A k \in Kinds :
          RejectedClick(k) =>
              /\ threads' = threads /\ after_queue' = after_queue
              /\ acts'[k].state = "rejected" /\ acts'[k].nreq = 0
              /\ btn' = btn /\ btn'[k] = "normal"
              /\ results' = results
              /\ papers_folder' = papers_folder /\ loaded_papers' = loaded_papers
              /\ ai_client' = ai_client /\ provider' = provider
              /\ api_key' = api_key]_vars

\* an analysis was displayed; the next click on Analyze was rejected and the
\* displayed result is still there
C21_Witness ==
    /\ program = "gui"
    /\ acts["analyze"].state = "rejected"
    /\ results["analyze"] = <<"prose">>
    /\ btn["analyze"] = "normal"
    /\ InFlight("analyze") = 0
    /\ loaded_papers # <<>>

====
